---- MODULE Spec2Model ----
(***************************************************************************)
(* Location tracker: the browser client (app.js, src/unnamed/part_001)     *)
(* with its local store and sync engine, and the Express/PostgreSQL        *)
(* backend (src/server.js) with its locations table.                       *)
(*                                                                         *)
(* The client is single-threaded: every action below is one run-to-        *)
(* completion task of the event loop (a user event, a timer tick, or the   *)
(* continuation of an async function after an awaited fetch settles).      *)
(* An awaited fetch is settled in one step together with the work the      *)
(* server does for it; the request body is the one captured when the       *)
(* fetch was issued.                                                       *)
(***************************************************************************)
EXTENDS Integers, Sequences, FiniteSets, TLC

(***************************************************************************)
(* Bounds of the model.                                                    *)
(***************************************************************************)
\* location objects allocated by the page (created, imported)
MaxObjs == 2
\* syncNow activations that can be past the entry of the function at once
MaxSweeps == 2
\* advances of the database clock NOW()
MaxSrvClock == 2

(***************************************************************************)
(* JavaScript values as they arrive in a JSON request body.                *)
(***************************************************************************)
Num(n) == [t |-> "num", v |-> n]
Str(s) == [t |-> "str", v |-> s]
\* the string new Date(ms).toISOString() gives for the instant ms
Iso(ms) == [t |-> "iso", v |-> ms]
\* a property that is absent from the body (destructured as undefined)
Undef == [t |-> "undef", v |-> 0]

\* JavaScript truthiness, as used by `!x` and `x || y`
Truthy(x) ==
    CASE x.t = "num" -> x.v # 0
      [] x.t = "str" -> x.v # ""
      [] x.t = "iso" -> TRUE
      [] OTHER -> FALSE

\* SQL NULL in a text column
NULL == "<NULL>"

(***************************************************************************)
(* The backend: POST /api/locations and DELETE /api/locations/:id over the *)
(* locations table (a set of rows; the primary key is enforced by the      *)
(* statements, not by the representation).                                 *)
(***************************************************************************)
\* `address || null`, parameter $7 of the upsert
AddressOrNull(a) == IF Truthy(a) THEN a.v ELSE NULL

\* the 400 answers of the handler
PostValid(body) ==
    /\ Truthy(body.id) /\ Truthy(body.type) /\ Truthy(body.note)
    /\ Truthy(body.latitude) /\ Truthy(body.longitude) /\ Truthy(body.timestamp)
    /\ body.type \in {Str("plant"), Str("litter")}
    /\ body.latitude.t = "num" /\ body.longitude.t = "num"

\* what the table's column types accept of a validated body (else the query
\* throws and the handler answers 500)
ColumnsAccept(body) ==
    /\ body.id.t = "num"
    /\ body.note.t = "str"
    /\ body.timestamp.t = "iso"

\* wrong upsert: a plain INSERT that ignores the key
UpsertRowsNoConflict(rows, body, nowS) ==
    rows \cup {[id |-> body.id.v, type |-> body.type.v, note |-> body.note.v,
                latitude |-> body.latitude.v, longitude |-> body.longitude.v,
                timestamp |-> body.timestamp.v,
                address |-> AddressOrNull(body.address),
                created_at |-> nowS, updated_at |-> nowS]}

\* INSERT ... ON CONFLICT (id) DO UPDATE SET ..., updated_at = NOW()
UpsertRows(rows, body, nowS) ==
    LET new(c) == [id |-> body.id.v, type |-> body.type.v, note |-> body.note.v,
                   latitude |-> body.latitude.v, longitude |-> body.longitude.v,
                   timestamp |-> body.timestamp.v,
                   address |-> AddressOrNull(body.address),
                   created_at |-> c, updated_at |-> nowS]
    IN  IF \E r \in rows : r.id = body.id.v
        THEN {IF r.id = body.id.v THEN new(r.created_at) ELSE r : r \in rows}
        ELSE rows \cup {new(nowS)}

\* app.post('/api/locations'): the status answered and the table afterwards;
\* dbOk is whether pool.query succeeds (the database is reachable)
PostLocations(body, rows, nowS, dbOk) ==
    IF ~PostValid(body) THEN [status |-> 400, rows |-> rows]
    ELSE IF ~dbOk \/ ~ColumnsAccept(body) THEN [status |-> 500, rows |-> rows]
    ELSE [status |-> 201, rows |-> UpsertRows(rows, body, nowS)]

\* app.delete('/api/locations/:id')
DeleteLocationsId(id, rows, dbOk) ==
    IF ~dbOk THEN [status |-> 500, rows |-> rows]
    ELSE IF ~\E r \in rows : r.id = id THEN [status |-> 404, rows |-> rows]
    ELSE [status |-> 200, rows |-> {r \in rows : r.id # id}]

\* response.ok of fetch
ResponseOk(status) == status >= 200 /\ status <= 299


(***************************************************************************)
(* The client state (the `app` object, the page's localStorage and DOM).   *)
(***************************************************************************)
VARIABLES
    objs,         \* the location objects ever allocated, by reference (index)
    locations,    \* app.locations: references, in array order
    locIsArray,   \* whether app.locations holds an array at all
    stored,       \* localStorage['tracker_locations']
    offlineMode,  \* app.config.offlineMode
    isSyncing,    \* app.syncState.isSyncing
    pendingSync,  \* app.syncState.pendingSync (the ids pushed to it)
    indicator,    \* class of #syncIndicator
    toast,        \* text of #toast, as far as the model tells texts apart
    now,          \* the last value Date.now() returned
    sweeps,       \* the activations of syncNow, by slot
    pushes,       \* the activations of syncLocationToServer awaiting fetch
    geocodes,     \* objects with a reverse-geocode fetch outstanding
    deletes,      \* per id, the deleteFromServer activations awaiting fetch
    probes,       \* the probes awaiting their fetch ("check": checkConnection)
    table,        \* the rows of the backend's locations table
    srvNow,       \* the database clock NOW()
    lastUpsert,   \* history: per id, the body of the latest accepted upsert
    delIssued,    \* history: the ids a DELETE request was issued for
    healed,       \* environment: every request is served and the user is away
    mirrored,     \* whether this specification follows the backend's table
    acked,        \* history: the ids a 2xx upsert response was received for
    reply         \* the last response of the backend's API, with its request

clientVars == <<objs, locations, locIsArray, stored, offlineMode, isSyncing,
                pendingSync, indicator, toast, now>>
asyncVars == <<sweeps, pushes, geocodes, deletes, probes>>
serverVars == <<table, srvNow, lastUpsert>>
vars == <<clientVars, asyncVars, serverVars, delIssued, healed, mirrored, acked, reply>>

Refs == 1..MaxObjs
Ids == 1..MaxObjs
Slots == 1..MaxSweeps
Types == {"plant", "litter"}

\* showToast(message): the model tells the rejection of syncNow apart from
\* every other message (a and b are the numbers some messages carry)
Toast(msg, a, b) ==
    IF msg = "Sync already in progress" THEN msg ELSE "(another message)"

\* the JSON body both syncLocationToServer and syncNow send
Body(loc) ==
    [id |-> Num(loc.id), type |-> Str(loc.type), note |-> Str(loc.note),
     latitude |-> Num(loc.lat), longitude |-> Num(loc.lng),
     timestamp |-> Iso(loc.timestamp), address |-> Str(loc.address)]

\* the number NaN, which parseFloat gives for text that is no number
NaN == 1000000

\* the value null in parsed JSON
JsonNull == 1000001

\* JSON.stringify of a number: NaN is written as null
JsonNumber(x) == IF x = NaN THEN JsonNull ELSE x

\* JSON.stringify of one record, as JSON.parse reads it back
Stringify(loc) == [loc EXCEPT !.lat = JsonNumber(@), !.lng = JsonNumber(@)]

\* JSON.stringify(this.locations) as saveToLocalStorage stores it
Serialize(locs, isArr, heap) ==
    IF isArr
    THEN [kind |-> "list", items |-> [i \in 1..Len(locs) |-> Stringify(heap[locs[i]])]]
    ELSE [kind |-> "nonlist", items |-> <<>>]

\* this.locations.filter(l => !l.synced)
Unsynced(locs, heap) == SelectSeq(locs, LAMBDA r : ~heap[r].synced)

\* this.locations.filter(l => l.id !== id)
WithoutId(locs, heap, id) == SelectSeq(locs, LAMBDA r : heap[r].id # id)

\* this.locations.find(l => l.id === id): <<>> or the first match
FindById(locs, heap, id) ==
    LET hits == SelectSeq(locs, LAMBDA r : heap[r].id = id)
    IN  IF hits = <<>> THEN <<>> ELSE <<Head(hits)>>

IdleSweep == [pc |-> "idle", snap |-> <<>>, i |-> 0, succ |-> 0, fail |-> 0,
              body |-> <<>>, by |-> ""]

\* what a POST can meet: served by the handler, the database down (500),
\* the request lost before the server, the reply lost after it
PostOutcomes ==
    IF healed THEN {"served"} ELSE {"served", "dberr", "neterr", "lostreply"}

\* the table after the server has seen (or not) a POST of body
ServePost(body, outcome) ==
    LET r == PostLocations(body, table, srvNow, outcome # "dberr") IN
    IF outcome = "neterr" \/ ~mirrored THEN UNCHANGED <<table, lastUpsert>>
    ELSE /\ table' = r.rows
         /\ lastUpsert' = IF r.status = 201
                          THEN [lastUpsert EXCEPT ![body.id.v] = <<body>>]
                          ELSE lastUpsert

\* response.ok as the awaiting client sees it; FALSE also stands for a
\* rejected fetch (both paths count a failure)
PostOk(body, outcome) ==
    /\ outcome \in {"served", "dberr"}
    /\ ResponseOk(PostLocations(body, table, srvNow, outcome # "dberr").status)

(***************************************************************************)
(* Page load: DOMContentLoaded has run loadStoredLocations, startAutoSync  *)
(* and checkConnection (whose fetch is outstanding).  The stored blob is   *)
(* missing, unparseable, or JSON that is not an array.                     *)
(***************************************************************************)
Init ==
    /\ stored \in {[kind |-> k, items |-> <<>>] : k \in {"missing", "corrupt", "nonlist"}}
    /\ objs = <<>>
    /\ locations = <<>>
    /\ locIsArray = (stored.kind # "nonlist")
    /\ offlineMode = FALSE
    /\ isSyncing = FALSE
    /\ pendingSync = {}
    /\ indicator = "markup"
    /\ toast = "(another message)"
    /\ now = 0
    /\ sweeps = [s \in Slots |-> IdleSweep]
    /\ pushes = {}
    /\ geocodes = {}
    /\ deletes = [id \in Ids |-> 0]
    /\ probes = {"check"}
    /\ table = {}
    /\ srvNow = 0
    /\ lastUpsert = [id \in Ids |-> <<>>]
    /\ delIssued = {}
    /\ healed = FALSE
    /\ mirrored = FALSE
    /\ acked = {}
    /\ reply = <<>>


(***************************************************************************)
(* Local store: creating, deleting, importing, clearing.                   *)
(***************************************************************************)
\* Date.now() read at a creation: the clock never goes back, and may not
\* have advanced since the last reading
ClockReadings == {t \in {now, now + 1} : t >= 1}

\* wrong pushOne: the POST is issued in offline mode too
PushOneCallAlways(ref, loc) ==
    /\ pushes' = pushes \cup {[ref |-> ref, body |-> Body(loc)]}
    /\ UNCHANGED pendingSync

\* syncLocationToServer up to its first await, for the object ref just
\* created with id t: queue when offline, else issue the POST
PushOneCall(ref, loc) ==
    IF offlineMode
    THEN /\ pendingSync' = pendingSync \cup {loc.id}
         /\ UNCHANGED pushes
    ELSE /\ pushes' = pushes \cup {[ref |-> ref, body |-> Body(loc)]}
         /\ UNCHANGED pendingSync

\* app.saveLocation; note is the trimmed #noteInput, hasPos whether
\* currentPosition is set, type is currentType
SaveLocation(type, note, hasPos) ==
    IF note = ""
    THEN /\ toast' = Toast("Please enter a note", 0, 0)
         /\ UNCHANGED <<objs, locations, locIsArray, stored, offlineMode, isSyncing,
                        pendingSync, indicator, now, asyncVars, serverVars,
                        delIssued, healed, mirrored, acked, reply>>
    ELSE IF ~hasPos
    THEN /\ toast' = Toast("Location not available", 0, 0)
         /\ UNCHANGED <<objs, locations, locIsArray, stored, offlineMode, isSyncing,
                        pendingSync, indicator, now, asyncVars, serverVars,
                        delIssued, healed, mirrored, acked, reply>>
    ELSE IF ~locIsArray
    THEN UNCHANGED vars      \* this.locations.push throws
    ELSE /\ Len(objs) < MaxObjs
         /\ \E t \in ClockReadings :
              LET ref == Len(objs) + 1
                  loc == [id |-> t, type |-> type, note |-> note,
                          lat |-> 3884, lng |-> -7718, timestamp |-> t,
                          address |-> "Loading...", synced |-> FALSE]
              IN  /\ now' = t
                  /\ objs' = Append(objs, loc)
                  /\ locations' = Append(locations, ref)
                  /\ stored' = Serialize(locations', TRUE, objs')
                  /\ geocodes' = geocodes \cup {ref}
                  /\ PushOneCall(ref, loc)
         /\ toast' = Toast("Location saved!", 0, 0)
         /\ UNCHANGED <<locIsArray, offlineMode, isSyncing, indicator, sweeps,
                        deletes, probes, serverVars, delIssued, healed, mirrored, acked, reply>>

\* the callbacks of reverseGeocode's fetch: a display name, a reply without
\* one, or a failed lookup (which does not persist)
GeocodeDone(ref, outcome) ==
    /\ ref \in geocodes
    /\ geocodes' = geocodes \ {ref}
    /\ objs' = [objs EXCEPT ![ref].address =
                   IF outcome = "named" THEN "1 Main St" ELSE "Address unavailable"]
    /\ stored' = IF outcome = "failed" THEN stored
                 ELSE Serialize(locations, locIsArray, objs')
    /\ UNCHANGED <<locations, locIsArray, offlineMode, isSyncing, pendingSync,
                   indicator, toast, now, sweeps, pushes, deletes, probes,
                   serverVars, delIssued, healed, mirrored, acked, reply>>

\* parseFloat of the coordinate strings the console passes
ParseFloat(str) ==
    CASE str = "38.84" -> 3884
      [] str = "-77.18" -> -7718
      [] OTHER -> NaN

\* app.addManualLocation(lat, lng, type, note)
AddManualLocation(lat, lng, type, note) ==
    IF ~locIsArray
    THEN UNCHANGED vars      \* this.locations.push throws
    ELSE /\ Len(objs) < MaxObjs
         /\ \E t \in ClockReadings :
              LET ref == Len(objs) + 1
                  loc == [id |-> t,
                          type |-> IF type = "" THEN "plant" ELSE type,
                          note |-> IF note = "" THEN "Manual test entry" ELSE note,
                          lat |-> ParseFloat(lat), lng |-> ParseFloat(lng),
                          timestamp |-> t, address |-> "Manually added",
                          synced |-> FALSE]
              IN  /\ now' = t
                  /\ objs' = Append(objs, loc)
                  /\ locations' = Append(locations, ref)
                  /\ stored' = Serialize(locations', TRUE, objs')
         /\ toast' = Toast("Manual location added", 0, 0)
         /\ UNCHANGED <<locIsArray, offlineMode, isSyncing, pendingSync, indicator,
                        asyncVars, serverVars, delIssued, healed, mirrored, acked, reply>>

\* wrong deleteFromServer: the DELETE is issued in offline mode too
DeleteFromServerCallAlways(id) ==
    /\ deletes' = [deletes EXCEPT ![id] = @ + 1]
    /\ delIssued' = delIssued \cup {id}

\* deleteFromServer up to its await: nothing when offline, else the DELETE
DeleteFromServerCall(id) ==
    IF offlineMode
    THEN UNCHANGED <<deletes, delIssued>>
    ELSE /\ deletes' = [deletes EXCEPT ![id] = @ + 1]
         /\ delIssued' = delIssued \cup {id}

\* wrong deleteLocation: the remote delete does not look at the synced flag
DeleteLocationAlwaysRemote(id, confirmed) ==
    IF ~confirmed \/ ~locIsArray
    THEN UNCHANGED vars
    ELSE LET found == FindById(locations, objs, id) IN
         /\ locations' = WithoutId(locations, objs, id)
         /\ stored' = Serialize(locations', TRUE, objs)
         /\ IF found # <<>>
            THEN DeleteFromServerCall(id)
            ELSE UNCHANGED <<deletes, delIssued>>
         /\ toast' = Toast("Location deleted", 0, 0)
         /\ UNCHANGED <<objs, locIsArray, offlineMode, isSyncing, pendingSync,
                        indicator, now, sweeps, pushes, geocodes, probes,
                        serverVars, healed, mirrored, acked, reply>>

\* app.deleteLocation(id); confirmed is the answer to confirm()
DeleteLocation(id, confirmed) ==
    IF ~confirmed \/ ~locIsArray
    THEN UNCHANGED vars      \* returns, or this.locations.find throws
    ELSE LET found == FindById(locations, objs, id) IN
         /\ locations' = WithoutId(locations, objs, id)
         /\ stored' = Serialize(locations', TRUE, objs)
         /\ IF found # <<>> /\ objs[found[1]].synced
            THEN DeleteFromServerCall(id)
            ELSE UNCHANGED <<deletes, delIssued>>
         /\ toast' = Toast("Location deleted", 0, 0)
         /\ UNCHANGED <<objs, locIsArray, offlineMode, isSyncing, pendingSync,
                        indicator, now, sweeps, pushes, geocodes, probes,
                        serverVars, healed, mirrored, acked, reply>>

\* the continuation of deleteFromServer: the outcome is only logged
DeleteDone(id, outcome) ==
    /\ deletes[id] > 0
    /\ deletes' = [deletes EXCEPT ![id] = @ - 1]
    /\ IF outcome = "neterr" \/ ~mirrored
       THEN UNCHANGED table
       ELSE table' = DeleteLocationsId(id, table, outcome # "dberr").rows
    /\ lastUpsert' = IF \E r \in table : r.id = id /\ r \notin table'
                     THEN [lastUpsert EXCEPT ![id] = <<>>]
                     ELSE lastUpsert
    /\ UNCHANGED <<clientVars, sweeps, pushes, geocodes, probes, srvNow,
                   delIssued, healed, mirrored, acked, reply>>

\* the records a chosen file can hold: an earlier export of this or another
\* device (the synced flag is part of what exportData writes)
ImportPool ==
    {[id |-> i, type |-> "plant", note |-> "imported", lat |-> 3884, lng |-> -7718,
      timestamp |-> i, address |-> "1 Main St", synced |-> sy] :
        i \in Ids, sy \in BOOLEAN}

\* the files a user can choose: an empty array or one record
ImportFiles == {<<>>} \cup {<<a>> : a \in ImportPool}

\* imported.forEach: push each record whose id the store does not hold yet
RECURSIVE ImportEach(_, _, _)
ImportEach(imported, locs, heap) ==
    IF imported = <<>> THEN [locs |-> locs, heap |-> heap]
    ELSE IF FindById(locs, heap, Head(imported).id) = <<>>
    THEN ImportEach(Tail(imported), Append(locs, Len(heap) + 1),
                    Append(heap, Head(imported)))
    ELSE ImportEach(Tail(imported), locs, heap)

\* reader.onload of app.importData for a file that parses to the array
\* `imported` (parsed FALSE: JSON.parse throws or the value is no array)
ImportData(parsed, imported) ==
    IF ~parsed \/ (~locIsArray /\ imported # <<>>)
    THEN /\ toast' = Toast("Import failed: Invalid file", 0, 0)
         /\ UNCHANGED <<objs, locations, locIsArray, stored, offlineMode, isSyncing,
                        pendingSync, indicator, now, asyncVars, serverVars,
                        delIssued, healed, mirrored, acked, reply>>
    ELSE IF ~locIsArray
    THEN \* nothing to add; saveToLocalStorage, then updateStats throws
         /\ stored' = Serialize(locations, FALSE, objs)
         /\ toast' = Toast("Import failed: Invalid file", 0, 0)
         /\ UNCHANGED <<objs, locations, locIsArray, offlineMode, isSyncing,
                        pendingSync, indicator, now, asyncVars, serverVars,
                        delIssued, healed, mirrored, acked, reply>>
    ELSE LET r == ImportEach(imported, locations, objs) IN
         /\ Len(r.heap) <= MaxObjs
         /\ objs' = r.heap
         /\ locations' = r.locs
         /\ stored' = Serialize(locations', TRUE, objs')
         /\ toast' = Toast("Imported new locations", Len(r.heap) - Len(objs), 0)
         /\ UNCHANGED <<locIsArray, offlineMode, isSyncing, pendingSync,
                        indicator, now, asyncVars, serverVars, delIssued,
                        healed, mirrored, acked, reply>>

\* app.clearAllData; confirmed is the answer to confirm()
ClearAllData(confirmed) ==
    IF ~confirmed
    THEN UNCHANGED vars
    ELSE /\ locations' = <<>>
         /\ locIsArray' = TRUE
         /\ stored' = Serialize(<<>>, TRUE, objs)
         /\ toast' = Toast("All data cleared", 0, 0)
         /\ UNCHANGED <<objs, offlineMode, isSyncing, pendingSync, indicator, now,
                        asyncVars, serverVars, delIssued, healed, mirrored, acked, reply>>


(***************************************************************************)
(* Sync engine.                                                            *)
(***************************************************************************)
\* wrong continuation: the record is marked synced whatever the response
PushOneDoneOptimistic(p, outcome) ==
    /\ p \in pushes
    /\ pushes' = pushes \ {p}
    /\ ServePost(p.body, outcome)
    /\ objs' = [objs EXCEPT ![p.ref].synced = TRUE]
    /\ stored' = Serialize(locations, locIsArray, objs')
    /\ indicator' = "online"
    /\ acked' = acked \cup {objs[p.ref].id}
    /\ UNCHANGED pendingSync
    /\ UNCHANGED <<locations, locIsArray, offlineMode, isSyncing, toast, now,
                   sweeps, geocodes, deletes, probes, srvNow, delIssued, healed,
                   mirrored, reply>>

\* the continuation of syncLocationToServer after its fetch settles
PushOneDone(p, outcome) ==
    /\ p \in pushes
    /\ pushes' = pushes \ {p}
    /\ ServePost(p.body, outcome)
    /\ IF PostOk(p.body, outcome)
       THEN /\ objs' = [objs EXCEPT ![p.ref].synced = TRUE]
            /\ stored' = Serialize(locations, locIsArray, objs')
            /\ indicator' = "online"
            /\ acked' = acked \cup {objs[p.ref].id}
            /\ UNCHANGED pendingSync
       ELSE /\ pendingSync' = pendingSync \cup {objs[p.ref].id}
            /\ indicator' = "offline"
            /\ UNCHANGED <<objs, stored, acked>>
    /\ UNCHANGED <<locations, locIsArray, offlineMode, isSyncing, toast, now,
                   sweeps, geocodes, deletes, probes, srvNow, delIssued, healed,
                   mirrored, reply>>

\* the lowest free activation slot
FreeSlot == CHOOSE s \in Slots : sweeps[s].pc = "idle" /\ \A u \in Slots : u < s => sweeps[u].pc # "idle"

\* wrong guard: syncNow never rejects
SyncNowNeverRejects == FALSE

\* the single-flight guard at the entry of syncNow
SyncNowRejects == isSyncing

\* app.syncNow from its entry to its first await (or return, or throw)
SyncNowCall(by) ==
    IF SyncNowRejects
    THEN /\ toast' = Toast("Sync already in progress", 0, 0)
         /\ UNCHANGED <<objs, locations, locIsArray, stored, offlineMode, isSyncing,
                        pendingSync, indicator, now, asyncVars, serverVars,
                        delIssued, healed, mirrored, acked, reply>>
    ELSE IF ~locIsArray
    THEN \* this.locations.filter throws after the flag is set
         /\ isSyncing' = TRUE
         /\ indicator' = "syncing"
         /\ UNCHANGED <<objs, locations, locIsArray, stored, offlineMode,
                        pendingSync, toast, now, asyncVars, serverVars,
                        delIssued, healed, mirrored, acked, reply>>
    ELSE IF Unsynced(locations, objs) = <<>>
    THEN /\ toast' = Toast("All locations already synced", 0, 0)
         /\ isSyncing' = FALSE
         /\ indicator' = "online"
         /\ UNCHANGED <<objs, locations, locIsArray, stored, offlineMode,
                        pendingSync, now, asyncVars, serverVars, delIssued,
                        healed, mirrored, acked, reply>>
    ELSE /\ \E s \in Slots : sweeps[s].pc = "idle"
         /\ isSyncing' = TRUE
         /\ indicator' = "syncing"
         /\ LET snap == Unsynced(locations, objs) IN
            sweeps' = [sweeps EXCEPT ![FreeSlot] =
                         [pc |-> "await", snap |-> snap, i |-> 1, succ |-> 0,
                          fail |-> 0, body |-> <<Body(objs[snap[1]])>>, by |-> by]]
         /\ UNCHANGED <<objs, locations, locIsArray, stored, offlineMode,
                        pendingSync, toast, now, pushes, geocodes, deletes,
                        probes, serverVars, delIssued, healed, mirrored, acked, reply>>

\* the user presses "Sync now" (or calls app.syncNow() from the console)
SyncNow == SyncNowCall("user")

\* wrong condition: the tick does not look at offline mode
AutoSyncDueWhenOffline ==
    /\ Len(Unsynced(locations, objs)) > 0
    /\ ~isSyncing

\* the condition under which the interval callback calls syncNow
AutoSyncDue ==
    /\ Len(Unsynced(locations, objs)) > 0
    /\ ~isSyncing
    /\ ~offlineMode

\* one firing of the setInterval callback of startAutoSync
AutoSyncTick ==
    IF ~locIsArray
    THEN UNCHANGED vars      \* this.locations.filter throws in the callback
    ELSE IF AutoSyncDue
    THEN SyncNowCall("timer")
    ELSE UNCHANGED vars

\* wrong continuation: the sweep ends at the first failed upsert
SweepResponseAbortOnFailure(s, outcome) ==
    LET a == sweeps[s]
        ok == PostOk(a.body[1], outcome)
        succ == IF ok THEN a.succ + 1 ELSE a.succ
        fail == IF ok THEN a.fail ELSE a.fail + 1
    IN
    /\ a.pc = "await"
    /\ ServePost(a.body[1], outcome)
    /\ objs' = IF ok THEN [objs EXCEPT ![a.snap[a.i]].synced = TRUE] ELSE objs
    /\ acked' = IF ok THEN acked \cup {objs[a.snap[a.i]].id} ELSE acked
    /\ IF a.i < Len(a.snap) /\ ok
       THEN /\ sweeps' = [sweeps EXCEPT ![s] =
                            [a EXCEPT !.i = a.i + 1, !.succ = succ, !.fail = fail,
                                      !.body = <<Body(objs'[a.snap[a.i + 1]])>>]]
            /\ UNCHANGED <<stored, isSyncing, offlineMode, indicator, toast>>
       ELSE /\ sweeps' = [sweeps EXCEPT ![s] = IdleSweep]
            /\ stored' = Serialize(locations, locIsArray, objs')
            /\ isSyncing' = FALSE
            /\ IF fail = 0
               THEN /\ offlineMode' = FALSE
                    /\ indicator' = "online"
                    /\ toast' = Toast("Synced locations", succ, 0)
               ELSE /\ indicator' = "offline"
                    /\ toast' = Toast("Synced, failed", succ, fail)
                    /\ UNCHANGED offlineMode
    /\ UNCHANGED <<locations, locIsArray, pendingSync, now, pushes, geocodes,
                   deletes, probes, srvNow, delIssued, healed, mirrored, reply>>

\* the continuation of syncNow after the fetch for snap[i] settles: count
\* the outcome, then either issue the next fetch or run the epilogue
SweepResponse(s, outcome) ==
    LET a == sweeps[s]
        ok == PostOk(a.body[1], outcome)
        succ == IF ok THEN a.succ + 1 ELSE a.succ
        fail == IF ok THEN a.fail ELSE a.fail + 1
    IN
    /\ a.pc = "await"
    /\ ServePost(a.body[1], outcome)
    /\ objs' = IF ok THEN [objs EXCEPT ![a.snap[a.i]].synced = TRUE] ELSE objs
    /\ acked' = IF ok THEN acked \cup {objs[a.snap[a.i]].id} ELSE acked
    /\ IF a.i < Len(a.snap)
       THEN /\ sweeps' = [sweeps EXCEPT ![s] =
                            [a EXCEPT !.i = a.i + 1, !.succ = succ, !.fail = fail,
                                      !.body = <<Body(objs'[a.snap[a.i + 1]])>>]]
            /\ UNCHANGED <<stored, isSyncing, offlineMode, indicator, toast>>
       ELSE /\ sweeps' = [sweeps EXCEPT ![s] = IdleSweep]
            /\ stored' = Serialize(locations, locIsArray, objs')
            /\ isSyncing' = FALSE
            /\ IF fail = 0
               THEN /\ offlineMode' = FALSE
                    /\ indicator' = "online"
                    /\ toast' = Toast("Synced locations", succ, 0)
               ELSE /\ indicator' = "offline"
                    /\ toast' = Toast("Synced, failed", succ, fail)
                    /\ UNCHANGED offlineMode
    /\ UNCHANGED <<locations, locIsArray, pendingSync, now, pushes, geocodes,
                   deletes, probes, srvNow, delIssued, healed, mirrored, reply>>

\* what a GET /api/health can meet: 200, 503 (or any non-2xx), no reply
ProbeOutcomes == IF healed THEN {"ok"} ELSE {"ok", "non2xx", "neterr"}

\* the continuation of the startup checkConnection: a non-2xx reply falls
\* through to `return false`
CheckConnectionDone(outcome) ==
    /\ "check" \in probes
    /\ probes' = probes \ {"check"}
    /\ CASE outcome = "ok" -> offlineMode' = FALSE /\ indicator' = "online"
         [] outcome = "neterr" -> offlineMode' = TRUE /\ indicator' = "offline"
         [] OTHER -> UNCHANGED <<offlineMode, indicator>>
    /\ UNCHANGED <<objs, locations, locIsArray, stored, isSyncing, pendingSync,
                   toast, now, sweeps, pushes, geocodes, deletes, serverVars,
                   delIssued, healed, mirrored, acked, reply>>

\* app.testConnection(), taken at the moment its fetch settles: before the
\* await it only stores the server URL and API key, which the model does not
\* tell apart, so the whole call is its continuation; a non-2xx reply is
\* thrown and caught like a failed fetch
TestConnection(outcome) ==
    /\ IF outcome = "ok"
       THEN offlineMode' = FALSE /\ indicator' = "online"
       ELSE offlineMode' = TRUE /\ indicator' = "offline"
    /\ UNCHANGED <<objs, locations, locIsArray, stored, isSyncing, pendingSync,
                   toast, now, asyncVars, serverVars, delIssued, healed, mirrored, acked, reply>>

(***************************************************************************)
(* The page and its server.                                                *)
(***************************************************************************)
Next ==
    \/ \E note \in {"kudzu", ""}, hasPos \in BOOLEAN :
          SaveLocation("plant", note, hasPos)
    \/ AddManualLocation("38.84", "-77.18", "litter", "Manual test entry")
    \/ \E id \in Ids, confirmed \in BOOLEAN : DeleteLocation(id, confirmed)
    \/ \E id \in Ids, outcome \in {"served", "dberr", "neterr"} : DeleteDone(id, outcome)
    \/ \E parsed \in BOOLEAN, imported \in ImportFiles : ImportData(parsed, imported)
    \/ \E confirmed \in BOOLEAN : ClearAllData(confirmed)
    \/ \E p \in pushes, outcome \in PostOutcomes : PushOneDone(p, outcome)
    \/ SyncNow
    \/ AutoSyncTick
    \/ \E s \in Slots, outcome \in PostOutcomes : SweepResponse(s, outcome)
    \/ \E outcome \in ProbeOutcomes : CheckConnectionDone(outcome)
    \/ \E outcome \in ProbeOutcomes : TestConnection(outcome)

\* The reverse geocoder never answers here: its callbacks only write the
\* address of a record and persist, which no handler of the sync engine
\* reads, so the lookups simply stay outstanding.
Spec == Init /\ [][Next]_vars

\* The same page with the geocoder answering.
NextGeo ==
    \/ Next
    \/ \E ref \in Refs, outcome \in {"named", "unnamed", "failed"} :
          GeocodeDone(ref, outcome)

SpecGeo == Init /\ [][NextGeo]_vars


(***************************************************************************)
(* The periodic retry.  At some point the environment heals: from then on  *)
(* every request is served and the user leaves the page alone (no button,  *)
(* no console call).  The timer keeps firing and every fetch settles.      *)
(***************************************************************************)
Heal ==
    /\ ~healed
    /\ healed' = TRUE
    /\ UNCHANGED <<clientVars, asyncVars, serverVars, delIssued, mirrored, acked, reply>>

NextLive ==
    \/ ~healed /\ Next
    \/ Heal
    \/ healed /\ AutoSyncTick
    \/ healed /\ \E s \in Slots, outcome \in PostOutcomes : SweepResponse(s, outcome)
    \/ healed /\ \E p \in pushes, outcome \in PostOutcomes : PushOneDone(p, outcome)
    \/ healed /\ \E outcome \in ProbeOutcomes : CheckConnectionDone(outcome)
    \/ healed /\ \E id \in Ids : DeleteDone(id, "served")

SpecLive ==
    /\ Init
    /\ [][NextLive]_vars
    /\ WF_vars(AutoSyncTick)
    /\ WF_vars(\E s \in Slots, outcome \in PostOutcomes : SweepResponse(s, outcome))
    /\ WF_vars(\E p \in pushes, outcome \in PostOutcomes : PushOneDone(p, outcome))
    /\ WF_vars(\E outcome \in ProbeOutcomes : CheckConnectionDone(outcome))

(***************************************************************************)
(* The backend on its own: any client may POST any body and DELETE any id. *)
(***************************************************************************)
\* bodies every field of which passes validation
ValidBodies ==
    {[id |-> Num(i), type |-> Str(ty), note |-> Str(n), latitude |-> Num(3884),
      longitude |-> Num(-7718), timestamp |-> Iso(1), address |-> a] :
        i \in Ids, ty \in Types, n \in {"kudzu", "ivy"},
        a \in {Undef, Str(""), Str("1 Main St")}}

\* one valid body with one field missing or wrong
InvalidBodies ==
    LET b == [id |-> Num(1), type |-> Str("plant"), note |-> Str("kudzu"),
              latitude |-> Num(3884), longitude |-> Num(-7718),
              timestamp |-> Iso(1), address |-> Str("1 Main St")]
    IN  {[b EXCEPT !.id = Undef], [b EXCEPT !.id = Str("abc")],
         [b EXCEPT !.type = Undef], [b EXCEPT !.type = Str("weed")],
         [b EXCEPT !.note = Undef], [b EXCEPT !.note = Str("")],
         [b EXCEPT !.latitude = Undef], [b EXCEPT !.latitude = Num(0)],
         [b EXCEPT !.latitude = Str("38.84")],
         [b EXCEPT !.longitude = Undef], [b EXCEPT !.longitude = Num(0)],
         [b EXCEPT !.longitude = Str("-77.18")],
         [b EXCEPT !.timestamp = Undef], [b EXCEPT !.timestamp = Str("soon")]}

InitServer ==
    /\ stored = [kind |-> "missing", items |-> <<>>]
    /\ objs = <<>>
    /\ locations = <<>>
    /\ locIsArray = TRUE
    /\ offlineMode = FALSE
    /\ isSyncing = FALSE
    /\ pendingSync = {}
    /\ indicator = "markup"
    /\ toast = "(another message)"
    /\ now = 0
    /\ sweeps = [s \in Slots |-> IdleSweep]
    /\ pushes = {}
    /\ geocodes = {}
    /\ deletes = [id \in Ids |-> 0]
    /\ probes = {}
    /\ table = {}
    /\ srvNow = 0
    /\ lastUpsert = [id \in Ids |-> <<>>]
    /\ delIssued = {}
    /\ healed = FALSE
    /\ mirrored = TRUE
    /\ acked = {}
    /\ reply = <<>>

\* one POST /api/locations handled
SrvPost(body, dbOk) ==
    /\ ServePost(body, IF dbOk THEN "served" ELSE "dberr")
    /\ UNCHANGED <<clientVars, asyncVars, srvNow, delIssued, healed, mirrored, acked, reply>>

\* one DELETE /api/locations/:id handled
SrvDelete(id, dbOk) ==
    /\ table' = DeleteLocationsId(id, table, dbOk).rows
    /\ lastUpsert' = IF \E r \in table : r.id = id /\ r \notin table'
                     THEN [lastUpsert EXCEPT ![id] = <<>>]
                     ELSE lastUpsert
    /\ UNCHANGED <<clientVars, asyncVars, srvNow, delIssued, healed, mirrored, acked, reply>>

\* time passes on the database clock
SrvTick ==
    /\ srvNow < MaxSrvClock
    /\ srvNow' = srvNow + 1
    /\ UNCHANGED <<clientVars, asyncVars, table, lastUpsert, delIssued, healed,
                   mirrored, acked, reply>>

NextServer ==
    \/ \E body \in ValidBodies \cup InvalidBodies, dbOk \in BOOLEAN : SrvPost(body, dbOk)
    \/ \E id \in Ids, dbOk \in BOOLEAN : SrvDelete(id, dbOk)
    \/ SrvTick

SpecServer == InitServer /\ [][NextServer]_vars


(***************************************************************************)
(* Properties of the sync engine.                                          *)
(***************************************************************************)
\* the syncNow activations past the guard and not yet returned
ActiveSweeps == {s \in Slots : sweeps[s].pc # "idle"}

\* the objects app.locations holds
Held == {locations[i] : i \in 1..Len(locations)}

\* the POST requests outstanding for object r, from pushOne and from sweeps
Outstanding(r) ==
    Cardinality({p \in pushes : p.ref = r})
    + Cardinality({s \in ActiveSweeps : sweeps[s].snap[sweeps[s].i] = r})

\* C1: syncNow is single-flight.  In every reachable state at most one
\* syncNow activation is past the isSyncing guard, and a syncNow called while
\* isSyncing is true only shows "Sync already in progress": it issues no
\* request and changes no record.
C1_SingleFlight ==
    /\ [](Cardinality(ActiveSweeps) <= 1)
    /\ [][(isSyncing /\ SyncNow) =>
            /\ toast' = "Sync already in progress"
            /\ UNCHANGED <<objs, locations, stored, isSyncing, asyncVars,
                           serverVars, delIssued>>]_vars

\* a sweep is awaiting a response and a call made meanwhile was rejected
C1_Witness ==
    /\ isSyncing
    /\ toast = "Sync already in progress"
    /\ \E s \in Slots : sweeps[s].pc = "await"

\* C2 (as stated): when a sweep over N records completes with f failed
\* upserts, exactly N - f of the N records are synced, and the indicator is
\* online when f = 0 and offline when f > 0.
C2_SweepCounts ==
    [][\A s \in Slots, outcome \in PostOutcomes :
         (SweepResponse(s, outcome) /\ sweeps[s].i = Len(sweeps[s].snap)) =>
            LET a == sweeps[s]
                N == Len(a.snap)
                f == IF PostOk(a.body[1], outcome) THEN a.fail ELSE a.fail + 1
            IN  /\ Cardinality({k \in 1..N : objs'[a.snap[k]].synced}) = N - f
                /\ indicator' = IF f = 0 THEN "online" ELSE "offline"]_vars

\* C3 (as stated): isSyncing is true only while a syncNow activation is
\* still running (which is what will set it back to false).
C3_FlagReleased == isSyncing => ActiveSweeps # {}

\* every record the local store holds is synced
AllSynced == locIsArray => \A r \in Held : objs[r].synced

\* C4 (as stated): once every request is served and the user has stopped
\* acting, the timer alone brings every record of the store to synced.
C4_AutoRetry == healed ~> AllSynced

\* C5: when the fetch of pushOne settles, a 2xx response marks the record
\* synced and persists the store; a non-2xx response or a network error
\* leaves every record and the store's membership as they were.
C5_PushOneOutcome ==
    [][\A p \in pushes, outcome \in PostOutcomes :
         PushOneDone(p, outcome) =>
            IF outcome = "served" /\ PostValid(p.body) /\ ColumnsAccept(p.body)
            THEN /\ objs'[p.ref].synced
                 /\ stored' = Serialize(locations', locIsArray', objs')
            ELSE /\ objs' = objs
                 /\ locations' = locations
                 /\ stored' = stored]_vars

\* a record created by saveLocation has been pushed and marked synced, and
\* the persisted copy shows it
C5_Witness ==
    /\ \E r \in Held :
         /\ objs[r].synced
         /\ objs[r].address = "Loading..."
         /\ stored.kind = "list"
         /\ \E k \in 1..Len(stored.items) : stored.items[k] = objs[r]
    /\ indicator = "online"
    /\ ActiveSweeps = {}

\* a step of saveLocation or addManualLocation that created a record
Creates ==
    /\ Len(objs') = Len(objs) + 1
    /\ \/ \E note \in {"kudzu", ""}, hasPos \in BOOLEAN :
            SaveLocation("plant", note, hasPos)
       \/ AddManualLocation("38.84", "-77.18", "litter", "Manual test entry")

\* C6 (as stated): every creation by saveLocation or addManualLocation
\* issues exactly one POST for the new record.
C6_CreationPushes ==
    [][Creates =>
         /\ Cardinality(pushes' \ pushes) = 1
         /\ \A p \in pushes' \ pushes : p.ref = Len(objs')]_vars

\* C6 (amended): saveLocation issues exactly one POST for the new record
\* when offline mode is off; in offline mode it issues none and queues the
\* id; addManualLocation never issues a request.
C6_PushOnCreate ==
    [][Creates =>
         LET new == Len(objs') IN
         IF objs'[new].address = "Manually added"
         THEN pushes' = pushes /\ pendingSync' = pendingSync
         ELSE IF offlineMode
         THEN pushes' = pushes /\ objs'[new].id \in pendingSync'
         ELSE pushes' = pushes \cup {[ref |-> new, body |-> Body(objs'[new])]}]_vars

\* a record saved in offline mode: queued, unsynced, no request for it
C6_Witness ==
    /\ offlineMode
    /\ \E r \in Held :
         /\ objs[r].address = "Loading..."
         /\ ~objs[r].synced
         /\ objs[r].id \in pendingSync
         /\ Outstanding(r) = 0

\* C7: a timer tick that does anything happens in a state with a pending
\* record, isSyncing false and offline mode off, and starts syncNow; in any
\* other state the tick changes nothing.
C7_TickGuard ==
    [][AutoSyncTick =>
         /\ \E r \in Held : ~objs[r].synced
         /\ ~isSyncing
         /\ ~offlineMode
         /\ isSyncing'
         /\ \E s \in Slots : sweeps[s].pc = "idle" /\ sweeps'[s].by = "timer"]_vars

\* a sweep started by the timer is awaiting a response
C7_Witness == \E s \in Slots : sweeps[s].pc = "await" /\ sweeps[s].by = "timer"

\* a confirmed deleteLocation(id) that found a record
Deletes(id) ==
    /\ locIsArray
    /\ FindById(locations, objs, id) # <<>>
    /\ DeleteLocation(id, TRUE)

\* C8 (as stated): deleting a record with synced false issues no request;
\* deleting a record with synced true issues exactly one DELETE for its id.
C8_DeleteRemote ==
    [][\A id \in Ids : Deletes(id) =>
         /\ \A other \in Ids \ {id} : deletes'[other] = deletes[other]
         /\ deletes'[id] = IF objs[FindById(locations, objs, id)[1]].synced
                           THEN deletes[id] + 1 ELSE deletes[id]]_vars

\* C8 (amended): deleting a record with synced false issues no request;
\* deleting a record with synced true issues exactly one DELETE for its id
\* when offline mode is off and none when it is on (the record is the first
\* one of the store with that id).
C8_DeleteRemoteOnline ==
    [][\A id \in Ids : Deletes(id) =>
         /\ \A other \in Ids \ {id} : deletes'[other] = deletes[other]
         /\ deletes'[id] = IF objs[FindById(locations, objs, id)[1]].synced
                              /\ ~offlineMode
                           THEN deletes[id] + 1 ELSE deletes[id]]_vars

\* a synced record was deleted and one DELETE is outstanding for its id
C8_Witness ==
    \E id \in Ids :
       /\ deletes[id] = 1
       /\ \A r \in Held : objs[r].id # id
       /\ \E r \in 1..Len(objs) : objs[r].id = id /\ objs[r].synced

\* C9 (as stated): no DELETE is issued in offline mode, and over a run at
\* most one DELETE is issued for an id.
C9_OneDeletePerId ==
    [][\A id \in Ids : deletes'[id] > deletes[id] =>
         /\ ~offlineMode
         /\ id \notin delIssued]_vars

\* C9 (amended): no DELETE is issued in offline mode; a DELETE is issued
\* only by a deleteLocation call, at most one per call; when a DELETE
\* settles, whatever its outcome, nothing is issued and no client state
\* changes.
C9_DeleteBestEffort ==
    [][/\ \A id \in Ids : deletes'[id] > deletes[id] =>
            /\ ~offlineMode
            /\ deletes'[id] = deletes[id] + 1
            /\ Deletes(id)
       /\ \A id \in Ids, outcome \in {"served", "dberr", "neterr"} :
            DeleteDone(id, outcome) =>
               /\ UNCHANGED <<clientVars, pushes, sweeps>>
               /\ \A other \in Ids : deletes'[other] <= deletes[other]]_vars

\* the DELETE for a deleted id has settled and none is outstanding
C9_Witness ==
    \E id \in delIssued :
       /\ deletes[id] = 0
       /\ \A r \in Held : objs[r].id # id

(***************************************************************************)
(* Properties of the backend.                                              *)
(***************************************************************************)
\* the table without the audit column updated_at
Proj(rows) == {[r EXCEPT !.updated_at = 0] : r \in rows}

\* the address a body sends, as text (an absent address is no text)
AddressSent(body) == IF body.address.t = "str" THEN body.address.v ELSE NULL

\* the row of id carries what body sent, the address being addr
Carries(id, body, addr) ==
    \E r \in table :
       /\ r.id = id
       /\ r.type = body.type.v
       /\ r.note = body.note.v
       /\ r.latitude = body.latitude.v
       /\ r.longitude = body.longitude.v
       /\ r.timestamp = body.timestamp.v
       /\ r.address = addr

\* C10 (as stated): at most one row per id; the row of an id carries the
\* type, note, latitude, longitude, timestamp and address of the latest
\* accepted upsert for it; upserting that body again leaves the table as it
\* is apart from updated_at.
C10_UpsertIdempotent ==
    \A id \in Ids :
       /\ Cardinality({r \in table : r.id = id}) <= 1
       /\ lastUpsert[id] # <<>> =>
            LET body == lastUpsert[id][1] IN
            /\ Carries(id, body, AddressSent(body))
            /\ Proj(UpsertRows(table, body, srvNow)) = Proj(table)

\* C10 (amended): the same, except that the row's address is the address of
\* the latest accepted upsert only when that is a non-empty string, and
\* NULL when it is empty or absent.
C10_UpsertLatest ==
    \A id \in Ids :
       /\ Cardinality({r \in table : r.id = id}) <= 1
       /\ lastUpsert[id] # <<>> =>
            LET body == lastUpsert[id][1] IN
            /\ Carries(id, body, IF AddressSent(body) = "" THEN NULL
                                 ELSE AddressSent(body))
            /\ Proj(UpsertRows(table, body, srvNow)) = Proj(table)

\* an id upserted again later, with an empty address the last time
C10_Witness ==
    \E id \in Ids :
       /\ lastUpsert[id] # <<>>
       /\ lastUpsert[id][1].address = Str("")
       /\ \E r \in table : r.id = id /\ r.address = NULL
                           /\ r.updated_at > r.created_at


(***************************************************************************)
(* Properties of the local store and of the connectivity state.            *)
(***************************************************************************)
\* C11 (as stated): a record of the local store has synced = true only if
\* this client has received a 2xx upsert response for its id.
C11_SyncedOnlyAfterAck ==
    \A r \in Held : objs[r].synced => objs[r].id \in acked

\* C12 (as stated): no two records of app.locations have the same id.
C12_UniqueIds ==
    \A i, j \in 1..Len(locations) :
       i # j => objs[locations[i]].id # objs[locations[j]].id

\* C15 (as stated): as long as the stored blob is the missing, unparseable
\* or non-list one that loadStoredLocations met, app.locations is the empty
\* list.
C15_RestoreFallsBack ==
    stored.kind \in {"missing", "corrupt", "nonlist"} =>
       locIsArray /\ locations = <<>>

\* C16 (as stated): the indicator shows 'syncing' only while a syncNow
\* activation is in flight (which is what resolves it to online or offline).
C16_SyncingTransient == indicator = "syncing" => ActiveSweeps # {}

\* C17 (as stated): when the probe of checkConnection settles, a 2xx
\* response gives offlineMode = false and the indicator 'online'; any other
\* outcome gives offlineMode = true and the indicator 'offline'; no record
\* changes.
C17_ProbeSetsState ==
    [][\A outcome \in {"ok", "non2xx", "neterr"} :
         CheckConnectionDone(outcome) =>
            /\ UNCHANGED <<objs, locations, locIsArray>>
            /\ IF outcome = "ok"
               THEN ~offlineMode' /\ indicator' = "online"
               ELSE offlineMode' /\ indicator' = "offline"]_vars


(***************************************************************************)
(* The local store on its own, across page reloads: the console and the    *)
(* import dialog pass any arguments, and no response arrives.              *)
(***************************************************************************)
\* a reload of the page: a fresh app object, then loadConfig (no config was
\* ever saved), loadStoredLocations, startAutoSync and checkConnection
Reload ==
    /\ objs' = IF stored.kind = "list" THEN stored.items ELSE <<>>
    /\ locations' = [i \in 1..Len(objs') |-> i]
    /\ locIsArray' = (stored.kind # "nonlist")
    /\ offlineMode' = FALSE
    /\ isSyncing' = FALSE
    /\ pendingSync' = {}
    /\ indicator' = "markup"
    /\ toast' = "(another message)"
    /\ sweeps' = [s \in Slots |-> IdleSweep]
    /\ pushes' = {}
    /\ geocodes' = {}
    /\ deletes' = [id \in Ids |-> 0]
    /\ probes' = {"check"}
    /\ UNCHANGED <<stored, now, serverVars, delIssued, healed, mirrored, acked, reply>>

\* a file holding one record that no validation would let through
ImportOdd ==
    <<[id |-> 1, type |-> "weed", note |-> "", lat |-> 3884, lng |-> -7718,
       timestamp |-> 1, address |-> "1 Main St", synced |-> FALSE]>>

NextStore ==
    \/ \E note \in {"kudzu", ""}, hasPos \in BOOLEAN :
          SaveLocation("plant", note, hasPos) /\ now' <= MaxObjs
    \/ \E lat \in {"38.84", "abc"}, type \in {"litter", "weed", ""},
          note \in {"Manual test entry", ""} :
          AddManualLocation(lat, "-77.18", type, note) /\ now' <= MaxObjs
    \/ \E id \in Ids, confirmed \in BOOLEAN : DeleteLocation(id, confirmed)
    \/ \E parsed \in BOOLEAN, imported \in ImportFiles \cup {ImportOdd} :
          ImportData(parsed, imported)
    \/ \E confirmed \in BOOLEAN : ClearAllData(confirmed)
    \/ Reload

SpecStore == Init /\ [][NextStore]_vars

\* C13 (as stated): every record of app.locations has a type in
\* {plant, litter}, a non-empty note and finite lat and lng.
C13_StoreValid ==
    \A r \in Held :
       /\ objs[r].type \in Types
       /\ objs[r].note # ""
       /\ objs[r].lat \notin {NaN, JsonNull}
       /\ objs[r].lng \notin {NaN, JsonNull}

\* C14 (as stated): a reload restores, for every record the store held, a
\* record equal to it in id, type, note, lat, lng, timestamp and address.
C14_RoundTrip ==
    [][Reload =>
         \A r \in Held : \E q \in 1..Len(locations') :
            [objs'[locations'[q]] EXCEPT !.synced = FALSE]
               = [objs[r] EXCEPT !.synced = FALSE]]_vars


(***************************************************************************)
(* The page together with its server's table and the reverse geocoder:     *)
(* records are saved from the form, and every fetch gets its answer.       *)
(***************************************************************************)
\* the page after a first load whose health probe was answered 200
InitMirror ==
    /\ stored = [kind |-> "missing", items |-> <<>>]
    /\ objs = <<>>
    /\ locations = <<>>
    /\ locIsArray = TRUE
    /\ offlineMode = FALSE
    /\ isSyncing = FALSE
    /\ pendingSync = {}
    /\ indicator = "online"
    /\ toast = "(another message)"
    /\ now = 0
    /\ sweeps = [s \in Slots |-> IdleSweep]
    /\ pushes = {}
    /\ geocodes = {}
    /\ deletes = [id \in Ids |-> 0]
    /\ probes = {}
    /\ table = {}
    /\ srvNow = 0
    /\ lastUpsert = [id \in Ids |-> <<>>]
    /\ delIssued = {}
    /\ healed = FALSE
    /\ mirrored = TRUE
    /\ acked = {}
    /\ reply = <<>>

NextMirror ==
    \/ SaveLocation("plant", "kudzu", TRUE)
    \/ \E ref \in Refs, outcome \in {"named", "unnamed", "failed"} :
          GeocodeDone(ref, outcome)
    \/ \E p \in pushes, outcome \in PostOutcomes : PushOneDone(p, outcome)
    \/ SyncNow
    \/ AutoSyncTick
    \/ \E s \in Slots, outcome \in PostOutcomes : SweepResponse(s, outcome)

SpecMirror == InitMirror /\ [][NextMirror]_vars

\* every record is synced and no request or callback is outstanding
Settled ==
    /\ AllSynced
    /\ pushes = {}
    /\ geocodes = {}
    /\ ActiveSweeps = {}
    /\ \A id \in Ids : deletes[id] = 0

\* C18 (as stated): once sync has settled, the remote row of each local id
\* equals the local record in type, note, lat, lng, timestamp and address.
C18_Mirror ==
    Settled =>
       \A r \in Held : \E row \in table :
          /\ row.id = objs[r].id
          /\ row.type = objs[r].type
          /\ row.note = objs[r].note
          /\ row.latitude = objs[r].lat
          /\ row.longitude = objs[r].lng
          /\ row.timestamp = objs[r].timestamp
          /\ row.address = objs[r].address


(***************************************************************************)
(* The backend's API with its responses: each request is recorded with the *)
(* response it got.                                                        *)
(***************************************************************************)
\* a body every field of which is present and well-formed
BaseBody ==
    [id |-> Num(1), type |-> Str("plant"), note |-> Str("kudzu"),
     latitude |-> Num(3884), longitude |-> Num(-7718), timestamp |-> Iso(1),
     address |-> Str("1 Main St")]

\* the bodies posted: well-formed ones (some on the equator or the prime
\* meridian) and the ones with one field missing or wrong
ApiBodies ==
    {BaseBody, [BaseBody EXCEPT !.id = Num(2), !.type = Str("litter")],
     [BaseBody EXCEPT !.latitude = Num(0)], [BaseBody EXCEPT !.longitude = Num(0)]}
    \cup InvalidBodies

\* one element of the `locations` array of POST /api/import: an object in
\* the client's field names, or null
Item(isNull, id, type) ==
    [null |-> isNull, id |-> id, type |-> type, note |-> Str("kudzu"),
     lat |-> Num(3884), lng |-> Num(-7718), timestamp |-> Iso(1),
     address |-> Str("1 Main St")]

ApiItems ==
    {Item(FALSE, Num(1), Str("plant")), Item(FALSE, Num(2), Str("litter")),
     Item(FALSE, Num(2), Str("weed")), Item(TRUE, Undef, Undef)}

\* the arrays imported: up to two elements
ApiLists == {<<>>} \cup {<<a>> : a \in ApiItems} \cup {<<a, b>> : a, b \in ApiItems}

\* whether the INSERT of the import endpoint is accepted by the table's
\* column types and constraints
InsertAccepts(item) ==
    /\ item.id.t = "num"
    /\ item.type \in {Str("plant"), Str("litter")}
    /\ item.note.t = "str"
    /\ item.lat.t = "num" /\ item.lng.t = "num"
    /\ item.timestamp.t = "iso"

\* INSERT ... ON CONFLICT (id) DO NOTHING
InsertRows(rows, item, nowS) ==
    IF \E r \in rows : r.id = item.id.v
    THEN rows
    ELSE rows \cup {[id |-> item.id.v, type |-> item.type.v, note |-> item.note.v,
                     latitude |-> item.lat.v, longitude |-> item.lng.v,
                     timestamp |-> item.timestamp.v,
                     address |-> IF item.address.t = "str" THEN item.address.v
                                 ELSE NULL,
                     created_at |-> nowS, updated_at |-> nowS]}

\* the for loop of the import endpoint over the items left; thrown is
\* whether an exception left the loop (the handler of a failed item reads
\* loc.id, which throws again when the item is null)
RECURSIVE ImportLoop(_, _, _, _, _, _)
ImportLoop(items, rows, imported, failed, nowS, dbOk) ==
    IF items = <<>>
    THEN [thrown |-> FALSE, rows |-> rows, imported |-> imported, failed |-> failed]
    ELSE LET loc == Head(items) IN
         IF loc.null
         THEN [thrown |-> TRUE, rows |-> rows, imported |-> imported,
               failed |-> failed + 1]
         ELSE IF ~dbOk \/ ~InsertAccepts(loc)
         THEN ImportLoop(Tail(items), rows, imported, failed + 1, nowS, dbOk)
         ELSE ImportLoop(Tail(items), InsertRows(rows, loc, nowS), imported + 1,
                         failed, nowS, dbOk)

\* app.post('/api/import') for a body whose `locations` is the array items
\* (isList FALSE: it is no array)
PostImport(isList, items, rows, nowS, dbOk) ==
    IF ~isList
    THEN [status |-> 400, rows |-> rows, imported |-> 0, failed |-> 0, total |-> 0]
    ELSE LET r == ImportLoop(items, rows, 0, 0, nowS, dbOk) IN
         IF r.thrown
         THEN [status |-> 500, rows |-> r.rows, imported |-> 0, failed |-> 0,
               total |-> 0]
         ELSE [status |-> 200, rows |-> r.rows, imported |-> r.imported,
               failed |-> r.failed, total |-> Len(items)]

\* one POST /api/locations answered
ApiPost(body, dbOk) ==
    LET r == PostLocations(body, table, srvNow, dbOk) IN
    /\ table' = r.rows
    /\ reply' = <<[op |-> "post", req |-> <<body>>, dbOk |-> dbOk,
                   status |-> r.status, imported |-> 0, failed |-> 0,
                   total |-> 0]>>
    /\ UNCHANGED <<clientVars, asyncVars, srvNow, lastUpsert, delIssued, healed,
                   mirrored, acked>>

\* one POST /api/import answered
ApiImport(isList, items, dbOk) ==
    LET r == PostImport(isList, items, table, srvNow, dbOk) IN
    /\ table' = r.rows
    /\ reply' = <<[op |-> IF isList THEN "import" ELSE "import of no array",
                   req |-> items, dbOk |-> dbOk,
                   status |-> r.status, imported |-> r.imported,
                   failed |-> r.failed, total |-> r.total]>>
    /\ UNCHANGED <<clientVars, asyncVars, srvNow, lastUpsert, delIssued, healed,
                   mirrored, acked>>

\* one DELETE /api/locations/:id answered
ApiDelete(id, dbOk) ==
    LET r == DeleteLocationsId(id, table, dbOk) IN
    /\ table' = r.rows
    /\ reply' = <<[op |-> "delete", req |-> <<>>, dbOk |-> dbOk,
                   status |-> r.status, imported |-> 0, failed |-> 0,
                   total |-> 0]>>
    /\ UNCHANGED <<clientVars, asyncVars, srvNow, lastUpsert, delIssued, healed,
                   mirrored, acked>>

NextApi ==
    \/ \E body \in ApiBodies, dbOk \in BOOLEAN : ApiPost(body, dbOk)
    \/ \E isList \in BOOLEAN, items \in ApiLists, dbOk \in BOOLEAN :
          ApiImport(isList, items, dbOk)
    \/ \E id \in Ids, dbOk \in BOOLEAN : ApiDelete(id, dbOk)

SpecApi == InitServer /\ [][NextApi]_vars


\* a required field of the body is missing, or its type is outside
\* {plant, litter}, or its latitude or longitude is not a number
MissingOrInvalid(body) ==
    \/ \E f \in {"id", "type", "note", "latitude", "longitude", "timestamp"} :
          body[f] = Undef
    \/ body.type \notin {Str("plant"), Str("litter")}
    \/ body.latitude.t # "num"
    \/ body.longitude.t # "num"

\* every required field of the body is present and well-formed
WellFormed(body) ==
    /\ body.id.t = "num"
    /\ body.type \in {Str("plant"), Str("litter")}
    /\ body.note.t = "str" /\ body.note.v # ""
    /\ body.latitude.t = "num"
    /\ body.longitude.t = "num"
    /\ body.timestamp.t = "iso"

\* C19 (as stated): with the database up, a POST /api/locations whose body
\* misses a required field or has an invalid one is answered 400 and leaves
\* the table unchanged; a body whose fields are all present and valid,
\* latitude 0 or longitude 0 included, is answered 201 and stored.
C19_PostValidation ==
    /\ [](reply # <<>> /\ reply[1].op = "post" /\ reply[1].dbOk =>
            LET body == reply[1].req[1] IN
            /\ MissingOrInvalid(body) => reply[1].status = 400
            /\ WellFormed(body) =>
                 /\ reply[1].status = 201
                 /\ \E row \in table :
                      /\ row.id = body.id.v
                      /\ row.latitude = body.latitude.v
                      /\ row.longitude = body.longitude.v)
    /\ [][\A body \in ApiBodies, dbOk \in BOOLEAN :
            (ApiPost(body, dbOk) /\ reply'[1].status = 400) => table' = table]_vars

\* C20 (as stated): POST /api/import of an array of n items is answered with
\* total = n and imported + failed = n; every item the table accepts has a
\* row afterwards, whatever items fail before it; every failing item is
\* counted in failed; no existing row is changed.
C20_ImportNeverAborts ==
    /\ [](reply # <<>> /\ reply[1].op = "import" =>
            LET items == reply[1].req
                n == Len(items)
                fails(k) == items[k].null \/ ~InsertAccepts(items[k])
                            \/ ~reply[1].dbOk
            IN  /\ reply[1].status = 200
                /\ reply[1].total = n
                /\ reply[1].imported + reply[1].failed = n
                /\ reply[1].failed = Cardinality({k \in 1..n : fails(k)})
                /\ \A k \in 1..n :
                     ~fails(k) => \E row \in table : row.id = items[k].id.v)
    /\ [][\A items \in ApiLists, dbOk \in BOOLEAN :
            ApiImport(TRUE, items, dbOk) => \A row \in table : row \in table']_vars


(***************************************************************************)
(* Properties of concurrent requests and of the indicator.                 *)
(***************************************************************************)
\* C24 (as stated): no record has two upsert requests outstanding at the
\* same time (from pushOne and from a sweep).
C24_OneUpsertPerRecord ==
    \A r \in 1..Len(objs) : Outstanding(r) <= 1

\* C25 (as stated): the indicator shows 'syncing' if and only if isSyncing
\* is true.
C25_IndicatorIsFlag == (indicator = "syncing") <=> isSyncing

\* C26 (as stated): the indicator shows 'online' only when offline mode is
\* off.
C26_OnlineNotOffline == indicator = "online" => ~offlineMode

\* C27 (as stated): the imported count answered by POST /api/import is the
\* number of rows the request added to the table.
C27_ImportedCount ==
    [][\A items \in ApiLists, dbOk \in BOOLEAN :
         (ApiImport(TRUE, items, dbOk) /\ reply'[1].status = 200) =>
            reply'[1].imported = Cardinality(table' \ table)]_vars


\* C22: within one sweep the upserts are strictly sequential.  A sweep
\* starts with the request for the first record of its snapshot of the
\* pending records; it changes only when the response (or failure) of its
\* outstanding request arrives, and then issues the request for the next
\* record of the snapshot, or ends after the last one; so one request of the
\* sweep is outstanding at a time and each snapshot record is attempted
\* exactly once.
C22_SweepSequential ==
    /\ [](\A s \in ActiveSweeps :
            LET a == sweeps[s] IN
            /\ a.i \in 1..Len(a.snap)
            /\ \A j, k \in 1..Len(a.snap) : j # k => a.snap[j] # a.snap[k]
            /\ Len(a.body) = 1
            /\ a.body[1].id = Num(objs[a.snap[a.i]].id))
    /\ [][\A s \in Slots :
            LET a == sweeps[s] IN
            /\ (a.pc = "idle" /\ sweeps'[s].pc # "idle") =>
                  /\ sweeps'[s].snap = Unsynced(locations, objs)
                  /\ sweeps'[s].i = 1
            /\ (a.pc # "idle" /\ sweeps'[s] # a) =>
                  /\ \E outcome \in PostOutcomes : SweepResponse(s, outcome)
                  /\ IF a.i < Len(a.snap)
                     THEN /\ sweeps'[s].pc = "await"
                          /\ sweeps'[s].snap = a.snap
                          /\ sweeps'[s].i = a.i + 1
                     ELSE sweeps'[s] = IdleSweep]_vars

\* the request for the second record of a sweep is outstanding, after the
\* first one failed
C22_Witness ==
    \E s \in Slots :
       /\ sweeps[s].pc = "await"
       /\ sweeps[s].i = 2
       /\ sweeps[s].fail = 1


(***************************************************************************)
(* The guarded routes: each request meets the authenticate middleware      *)
(* first, under some process environment.                                  *)
(***************************************************************************)
\* process.env.NODE_ENV, process.env.API_KEY and the X-API-Key header: each
\* unset (undefined) or a string
EnvModes == {Undef, Str("development"), Str("production")}
EnvKeys == {Undef, Str(""), Str("k1")}
Headers == {Undef, Str(""), Str("k1"), Str("k2")}

\* wrong middleware: development mode is not looked at
AuthenticateKeyOnly(nodeEnv, envKey, header) ==
    IF ~Truthy(envKey)
    THEN TRUE
    ELSE ~(~Truthy(header) \/ header # envKey)

\* the authenticate middleware: TRUE when it calls next(), FALSE when it
\* answers 401
Authenticate(nodeEnv, envKey, header) ==
    IF nodeEnv = Str("development") \/ ~Truthy(envKey)
    THEN TRUE
    ELSE ~(~Truthy(header) \/ header # envKey)

\* the response of a guarded route, recorded with what the middleware saw
Answer(nodeEnv, envKey, header, status) ==
    <<[op |-> "guarded", env |-> nodeEnv, key |-> envKey, header |-> header,
       status |-> status]>>

\* POST /api/locations through authenticate
AuthPost(nodeEnv, envKey, header, body, dbOk) ==
    LET r == IF Authenticate(nodeEnv, envKey, header)
             THEN PostLocations(body, table, srvNow, dbOk)
             ELSE [status |-> 401, rows |-> table]
    IN  /\ table' = r.rows
        /\ reply' = Answer(nodeEnv, envKey, header, r.status)
        /\ UNCHANGED <<clientVars, asyncVars, srvNow, lastUpsert, delIssued,
                       healed, mirrored, acked>>

\* DELETE /api/locations/:id through authenticate
AuthDelete(nodeEnv, envKey, header, id, dbOk) ==
    LET r == IF Authenticate(nodeEnv, envKey, header)
             THEN DeleteLocationsId(id, table, dbOk)
             ELSE [status |-> 401, rows |-> table]
    IN  /\ table' = r.rows
        /\ reply' = Answer(nodeEnv, envKey, header, r.status)
        /\ UNCHANGED <<clientVars, asyncVars, srvNow, lastUpsert, delIssued,
                       healed, mirrored, acked>>

NextAuth ==
    \/ \E nodeEnv \in EnvModes, envKey \in EnvKeys, header \in Headers,
          body \in {BaseBody, [BaseBody EXCEPT !.latitude = Num(0)]},
          dbOk \in BOOLEAN :
          AuthPost(nodeEnv, envKey, header, body, dbOk)
    \/ \E nodeEnv \in EnvModes, envKey \in EnvKeys, header \in Headers,
          id \in Ids, dbOk \in BOOLEAN :
          AuthDelete(nodeEnv, envKey, header, id, dbOk)

SpecAuth == InitServer /\ [][NextAuth]_vars

\* the configuration and header the claim names: not development, a key
\* configured, the header absent or different from the key
MustReject(nodeEnv, envKey, header) ==
    /\ nodeEnv # Str("development")
    /\ envKey.t = "str" /\ envKey.v # ""
    /\ header.t = "undef" \/ header.v # envKey.v

\* C21: a request to a guarded route is answered 401, the table untouched,
\* exactly when NODE_ENV is not 'development', an API_KEY is configured and
\* the X-API-Key header is absent or differs from it; in every other case
\* the route's handler answers it.
C21_AuthGate ==
    [][reply' # <<>> =>
         LET nodeEnv == reply'[1].env
             envKey == reply'[1].key
             header == reply'[1].header
         IN  /\ \A body \in ApiBodies, dbOk \in BOOLEAN :
                   AuthPost(nodeEnv, envKey, header, body, dbOk) =>
                      IF MustReject(nodeEnv, envKey, header)
                      THEN reply'[1].status = 401 /\ table' = table
                      ELSE /\ reply'[1].status
                                = PostLocations(body, table, srvNow, dbOk).status
                           /\ table'
                                = PostLocations(body, table, srvNow, dbOk).rows
             /\ \A id \in Ids, dbOk \in BOOLEAN :
                   AuthDelete(nodeEnv, envKey, header, id, dbOk) =>
                      IF MustReject(nodeEnv, envKey, header)
                      THEN reply'[1].status = 401 /\ table' = table
                      ELSE /\ reply'[1].status
                                = DeleteLocationsId(id, table, dbOk).status
                           /\ table' = DeleteLocationsId(id, table, dbOk).rows]_vars

\* a request with the wrong key was answered 401 in production
C21_Witness ==
    /\ reply # <<>>
    /\ reply[1].status = 401
    /\ reply[1].env = Str("production")
    /\ reply[1].key = Str("k1")
    /\ reply[1].header = Str("k2")


(***************************************************************************)
(* The page together with its server's table while records are removed:    *)
(* records are saved, pushed and swept, deleted one by one or all at once, *)
(* and every DELETE that is sent is served.                                *)
(***************************************************************************)
NextRemove ==
    \/ SaveLocation("plant", "kudzu", TRUE)
    \/ \E p \in pushes, outcome \in PostOutcomes : PushOneDone(p, outcome)
    \/ SyncNow
    \/ \E s \in Slots, outcome \in PostOutcomes : SweepResponse(s, outcome)
    \/ \E id \in Ids : DeleteLocation(id, TRUE)
    \/ \E id \in Ids : DeleteDone(id, "served")
    \/ ClearAllData(TRUE)

SpecRemove == InitMirror /\ [][NextRemove]_vars

\* no upsert and no DELETE is outstanding
Quiet ==
    /\ pushes = {}
    /\ ActiveSweeps = {}
    /\ \A id \in Ids : deletes[id] = 0

\* the ids of records that were created and are no longer held locally
Removed ==
    {objs[r].id : r \in 1..Len(objs)} \ {objs[r].id : r \in Held}

\* C23 (as stated): the step that completes the last outstanding request
\* creates no server row for a record that deleteLocation or clearAllData
\* removed locally, so that no such record is resurrected.
C23_NoResurrection ==
    [][Quiet' => \A row \in table' \ table :
                    \E i \in 1..Len(locations') :
                       objs'[locations'[i]].id = row.id]_vars

\* C23, the end state: once every request has completed, the server has no
\* row for a record that was removed locally.
C23_NoRemovedRow ==
    Quiet => \A row \in table : row.id \notin Removed

====
